---- MODULE Spec2Model ----
(***************************************************************************)
(* Model of src/interpreter.py: the two-pass pseudo-assembler              *)
(* SimpleAssembler (load_program, remove_comments, parse_operand,          *)
(* first_pass, second_pass, execute, run).                                 *)
(*                                                                         *)
(* Text is modelled at character level: a string is a sequence of          *)
(* one-character strings, a token is such a sequence, a line too.          *)
(***************************************************************************)
EXTENDS Integers, Sequences, FiniteSets, TLC

VARIABLES
    pc,             \* self.pc
    registers,      \* self.registers, indexed 0..7
    memory,         \* self.memory, indexed 0..255
    running,        \* self.running
    lines,          \* self.lines
    instructions,   \* self.instructions
    labels,         \* self.labels, a function label name -> address
    stage,          \* position of the control flow inside run()
    idx,            \* position of the for loop of the pass being run (1-based)
    fp_address,     \* first_pass: local address
    fp_error_count, \* first_pass: local error_count
    sp_address,     \* second_pass: local address
    sp_error_count, \* second_pass: local error_count
    executed_count, \* execute: local executed_count
    iterations,     \* execute: number of iterations of the while loop so far, modulo 2
    diag,           \* the diagnostics printed by execute, in order
    result          \* value returned by run(): "none" until it returns

vars == <<pc, registers, memory, running, lines, instructions, labels, stage,
          idx, fp_address, fp_error_count, sp_address, sp_error_count,
          executed_count, iterations, diag, result>>

-----------------------------------------------------------------------------
(* Bounds of the model *)

\* Longest program (in lines) built from the line vocabulary.
MaxLines == 3

(* Program constants *)
NumRegisters == 8
MemorySize == 256
max_executions == 1000
MaxReg == 7
MaxImm == 65535

-----------------------------------------------------------------------------
(* Characters and strings *)

Whitespace == {" ", "\t", "\n"}

Digits == {"0", "1", "2", "3", "4", "5", "6", "7", "8", "9"}

UpperLetters == {"A", "B", "C", "D", "E", "F", "G", "H", "I", "J", "K", "L", "M",
                 "N", "O", "P", "Q", "R", "S", "T", "U", "V", "W", "X", "Y", "Z"}

LowerLetters == {"a", "b", "c", "d", "e", "f", "g", "h", "i", "j", "k", "l", "m",
                 "n", "o", "p", "q", "r", "s", "t", "u", "v", "w", "x", "y", "z"}

UpperOf == [c \in LowerLetters |->
              CASE c = "a" -> "A" [] c = "b" -> "B" [] c = "c" -> "C" [] c = "d" -> "D"
                [] c = "e" -> "E" [] c = "f" -> "F" [] c = "g" -> "G" [] c = "h" -> "H"
                [] c = "i" -> "I" [] c = "j" -> "J" [] c = "k" -> "K" [] c = "l" -> "L"
                [] c = "m" -> "M" [] c = "n" -> "N" [] c = "o" -> "O" [] c = "p" -> "P"
                [] c = "q" -> "Q" [] c = "r" -> "R" [] c = "s" -> "S" [] c = "t" -> "T"
                [] c = "u" -> "U" [] c = "v" -> "V" [] c = "w" -> "W" [] c = "x" -> "X"
                [] c = "y" -> "Y" [] c = "z" -> "Z"]

DigitVal == [c \in Digits |->
              CASE c = "0" -> 0 [] c = "1" -> 1 [] c = "2" -> 2 [] c = "3" -> 3
                [] c = "4" -> 4 [] c = "5" -> 5 [] c = "6" -> 6 [] c = "7" -> 7
                [] c = "8" -> 8 [] c = "9" -> 9]

\* str.upper()
upper(s) == [k \in 1..Len(s) |-> IF s[k] \in LowerLetters THEN UpperOf[s[k]] ELSE s[k]]

\* str.isdigit(): non-empty and every character a digit
isdigit(s) == Len(s) > 0 /\ \A k \in 1..Len(s) : s[k] \in Digits

\* str.isalpha() of one character
isalpha(c) == c \in UpperLetters \/ c \in LowerLetters

\* int(s) of an all-digit string
RECURSIVE int(_)
int(s) == IF Len(s) = 0 THEN 0
          ELSE 10 * int(SubSeq(s, 1, Len(s) - 1)) + DigitVal[s[Len(s)]]

\* str.strip()
RECURSIVE lstrip(_)
lstrip(s) == IF Len(s) > 0 /\ s[1] \in Whitespace THEN lstrip(Tail(s)) ELSE s

RECURSIVE rstrip(_)
rstrip(s) == IF Len(s) > 0 /\ s[Len(s)] \in Whitespace
             THEN rstrip(SubSeq(s, 1, Len(s) - 1)) ELSE s

strip(s) == rstrip(lstrip(s))

\* str.split(): the maximal runs of non-whitespace characters
RECURSIVE SplitFrom(_, _, _)
SplitFrom(s, cur, acc) ==
    IF Len(s) = 0 THEN (IF Len(cur) > 0 THEN Append(acc, cur) ELSE acc)
    ELSE IF s[1] \in Whitespace
         THEN SplitFrom(Tail(s), <<>>, IF Len(cur) > 0 THEN Append(acc, cur) ELSE acc)
         ELSE SplitFrom(Tail(s), Append(cur, s[1]), acc)

split(s) == SplitFrom(s, <<>>, <<>>)

\* SimpleAssembler.remove_comments
remove_comments(line) ==
    LET hashes == {k \in 1..Len(line) : line[k] = "#"}
        first  == CHOOSE k \in hashes : \A j \in hashes : k <= j
    IN  IF hashes # {} THEN strip(SubSeq(line, 1, first - 1)) ELSE strip(line)

\* parts[0].endswith(':')
endswith_colon(tok) == Len(tok) > 0 /\ tok[Len(tok)] = ":"

\* parts[0][:-1]
drop_last(tok) == SubSeq(tok, 1, Len(tok) - 1)

-----------------------------------------------------------------------------
(* Mnemonics *)

HLT == <<"H", "L", "T">>
NOP == <<"N", "O", "P">>
JMP == <<"J", "M", "P">>
MOV == <<"M", "O", "V">>

valid_instructions == {HLT, NOP, JMP, MOV}

-----------------------------------------------------------------------------
(* SimpleAssembler.parse_operand: a record [type, val]; type "error" stands *)
(* for the ValueError, val then names which of the two messages it is.      *)

\* variant: a number too large is wrapped to 16 bits instead of being refused
parse_operand_Wraps(token0) ==
    LET token == upper(token0)
        isReg == /\ Len(token) = 2
                 /\ token[1] = "R"
                 /\ token[2] \in Digits
                 /\ DigitVal[token[2]] <= MaxReg
    IN  IF isReg THEN [type |-> "reg", val |-> DigitVal[token[2]]]
        ELSE IF isdigit(token)
             THEN [type |-> "imm", val |-> int(token) % (MaxImm + 1)]
             ELSE IF Len(token) > 0 /\ isalpha(token[1])
                  THEN [type |-> "label", val |-> token]
                  ELSE [type |-> "error", val |-> "invalid"]

\* variant: the range of a number is not checked
parse_operand_NoRange(token0) ==
    LET token == upper(token0)
        isReg == /\ Len(token) = 2
                 /\ token[1] = "R"
                 /\ token[2] \in Digits
                 /\ DigitVal[token[2]] <= MaxReg
    IN  IF isReg THEN [type |-> "reg", val |-> DigitVal[token[2]]]
        ELSE IF isdigit(token)
             THEN [type |-> "imm", val |-> int(token)]
             ELSE IF Len(token) > 0 /\ isalpha(token[1])
                  THEN [type |-> "label", val |-> token]
                  ELSE [type |-> "error", val |-> "invalid"]

parse_operand(token0) ==
    LET token == upper(token0)
        isReg == /\ Len(token) = 2
                 /\ token[1] = "R"
                 /\ token[2] \in Digits
                 /\ DigitVal[token[2]] >= 0
                 /\ DigitVal[token[2]] <= MaxReg
    IN  IF isReg THEN [type |-> "reg", val |-> DigitVal[token[2]]]
        ELSE IF isdigit(token)
             THEN IF 0 <= int(token) /\ int(token) <= MaxImm
                  THEN [type |-> "imm", val |-> int(token)]
                  ELSE [type |-> "error", val |-> "range"]
             ELSE IF Len(token) > 0 /\ isalpha(token[1])
                  THEN [type |-> "label", val |-> token]
                  ELSE [type |-> "error", val |-> "invalid"]

-----------------------------------------------------------------------------
(* Input programs: the text of the file read by load_program.  A program   *)
(* is a sequence of physical lines drawn from a small vocabulary that      *)
(* covers every branch of the two passes and of execute.                   *)

\* HLT
L_HLT == <<"H", "L", "T">>

\* nop # pad
L_nop == <<"n", "o", "p", " ", "#", " ", "p", "a", "d">>

\* JMP L
L_JMP_L == <<"J", "M", "P", " ", "L">>

\* L:
L_LABEL_L == <<"L", ":">>

\* MOV R0 5
L_MOV_R0_5 == <<"M", "O", "V", " ", "R", "0", " ", "5">>

\* mov r1 R0
L_MOV_R1_R0 == <<"m", "o", "v", " ", "r", "1", " ", "R", "0">>

\* JMP M
L_JMP_M == <<"J", "M", "P", " ", "M">>

\* MOV R0 L
L_MOV_R0_L == <<"M", "O", "V", " ", "R", "0", " ", "L">>

\* HLT X
L_HLT_X == <<"H", "L", "T", " ", "X">>

\* JMP
L_JMP_NOARG == <<"J", "M", "P">>

\* JMP R0
L_JMP_R0 == <<"J", "M", "P", " ", "R", "0">>

\*   # L:
L_COMMENT == <<" ", " ", "#", " ", "L", ":">>

\* L: HLT
L_LABEL_L_HLT == <<"L", ":", " ", "H", "L", "T">>

\* MOV R7 65536
L_MOV_BIG == <<"M", "O", "V", " ", "R", "7", " ", "6", "5", "5", "3", "6">>

\* MOV R7 65535
L_MOV_MAX == <<"M", "O", "V", " ", "R", "7", " ", "6", "5", "5", "3", "5">>

\* FOO
L_FOO == <<"F", "O", "O">>

\* MOV R8 1
L_MOV_R8 == <<"M", "O", "V", " ", "R", "8", " ", "1">>

\* L: FOO
L_LABEL_L_FOO == <<"L", ":", " ", "F", "O", "O">>

\* JMP 5
L_JMP_5 == <<"J", "M", "P", " ", "5">>

LineVocab == {L_HLT, L_nop, L_JMP_L, L_LABEL_L, L_MOV_R0_5,
              L_MOV_R1_R0, L_JMP_M, L_MOV_R0_L, L_HLT_X, L_JMP_NOARG,
              L_JMP_R0, L_COMMENT, L_LABEL_L_HLT, L_MOV_BIG, L_MOV_MAX,
              L_FOO, L_MOV_R8, L_LABEL_L_FOO, L_JMP_5}

RECURSIVE SeqsUpTo(_)
SeqsUpTo(n) == IF n = 0 THEN {<<>>}
               ELSE LET shorter == SeqsUpTo(n - 1)
                    IN  shorter \cup {Append(p, l) : p \in shorter, l \in LineVocab}

\* max_executions - 1 NOP lines followed by HLT: the longest straight run
\* that still reaches its HLT at the step ceiling.
LongProgram == [k \in 1..max_executions |->
                  IF k < max_executions THEN <<"N", "O", "P">> ELSE <<"H", "L", "T">>]

Programs == SeqsUpTo(MaxLines) \cup {LongProgram}

\* file.readlines(): every physical line keeps its line terminator
readlines(prog) == [k \in 1..Len(prog) |-> Append(prog[k], "\n")]

-----------------------------------------------------------------------------
(* first_pass: the syntax checks of one instruction line *)

\* variant: any operand that parses is accepted as a jump target
JmpErrors_AnyOperand(parts) ==
    IF Len(parts) # 2 THEN 1
    ELSE IF parse_operand(parts[2]).type = "error" THEN 1 ELSE 0

\* the JMP branch: the number of errors it records for parts
JmpErrors(parts) ==
    IF Len(parts) # 2 THEN 1
    ELSE LET op == parse_operand(parts[2])
         IN  IF op.type = "error" THEN 1
             ELSE IF op.type # "label" THEN 1 ELSE 0

\* the MOV branch: the number of errors it records for parts
MovErrors(parts) ==
    IF Len(parts) # 3 THEN 1
    ELSE LET dest == parse_operand(parts[2])
         IN  IF dest.type = "error" THEN 1
             ELSE (IF dest.type # "reg" THEN 1 ELSE 0)
                  + (IF parse_operand(parts[3]).type = "error" THEN 1 ELSE 0)

\* variant: once an error is recorded, later lines are no longer checked
InstrErrors_AfterFirstError(parts) ==
    IF fp_error_count > 0 THEN 0
    ELSE (IF parts[1] \notin valid_instructions THEN 1 ELSE 0)
         + (IF parts[1] = JMP THEN JmpErrors(parts)
            ELSE IF parts[1] = MOV THEN MovErrors(parts)
            ELSE 0)

\* variant: the mnemonic is not looked up in the table of valid instructions
InstrErrors_NoLookup(parts) ==
    IF parts[1] = JMP THEN JmpErrors(parts)
    ELSE IF parts[1] = MOV THEN MovErrors(parts)
    ELSE 0

\* the else branch of the label test: errors recorded for an instruction line
InstrErrors(parts) ==
    LET instr == parts[1]
    IN  (IF instr \notin valid_instructions THEN 1 ELSE 0)
        + (IF instr = JMP THEN JmpErrors(parts)
           ELSE IF instr = MOV THEN MovErrors(parts)
           ELSE 0)

\* variant: a redefinition is not noticed
LabelDefined_Never(label) == FALSE

\* if label in self.labels
LabelDefined(label) == label \in DOMAIN labels

\* variant: the pass reports success whatever it counted
PassSucceeded_Always(error_count) == TRUE

\* return error_count == 0
PassSucceeded(error_count) == error_count = 0

\* variant: the record carries the address after the increment
InstructionRecord_Shifted(address, parts) ==
    [addr |-> address + 1, instr |-> parts[1], operands |-> Tail(parts)]

\* second_pass: the tuple (address, parts[0], parts[1:])
InstructionRecord(address, parts) ==
    [addr |-> address, instr |-> parts[1], operands |-> Tail(parts)]

-----------------------------------------------------------------------------
(* SimpleAssembler.__init__ *)

Init ==
    /\ pc = 0
    /\ registers = [r \in 0..(NumRegisters - 1) |-> 0]
    /\ memory = [a \in 0..(MemorySize - 1) |-> 0]
    /\ running = FALSE
    /\ lines = <<>>
    /\ instructions = <<>>
    /\ labels = <<>>
    /\ stage = "new"
    /\ idx = 0
    /\ fp_address = 0
    /\ fp_error_count = 0
    /\ sp_address = 0
    /\ sp_error_count = 0
    /\ executed_count = 0
    /\ iterations = 0
    /\ diag = <<>>
    /\ result = "none"

machine == <<pc, registers, memory, running>>
passLocals == <<fp_address, fp_error_count, sp_address, sp_error_count>>
execLocals == <<executed_count, iterations>>

-----------------------------------------------------------------------------
(* run(): load_program succeeds, first_pass is entered *)

LoadProgram ==
    /\ stage = "new"
    /\ \E prog \in Programs : lines' = [k \in 1..Len(prog) |-> upper(readlines(prog)[k])]
    /\ stage' = "first_pass"
    /\ idx' = 1
    /\ fp_address' = 0
    /\ fp_error_count' = 0
    /\ UNCHANGED <<machine, instructions, labels, sp_address, sp_error_count,
                   execLocals, diag, result>>

(* run(): load_program fails (file missing or unreadable), run returns False *)

LoadFail ==
    /\ stage = "new"
    /\ stage' = "done"
    /\ result' = FALSE
    /\ UNCHANGED <<machine, lines, instructions, labels, idx, passLocals,
                   execLocals, diag>>

(* first_pass: one iteration of the for loop *)

FirstPassLine ==
    /\ stage = "first_pass"
    /\ idx <= Len(lines)
    /\ LET line  == remove_comments(lines[idx])
           parts == split(line)
       IN  IF Len(line) = 0
           THEN UNCHANGED <<labels, fp_address, fp_error_count>>
           ELSE IF endswith_colon(parts[1])
                THEN LET label == drop_last(parts[1])
                     IN  IF LabelDefined(label)
                         THEN /\ fp_error_count' = fp_error_count + 1
                              /\ UNCHANGED <<labels, fp_address>>
                         ELSE /\ labels' = (label :> fp_address) @@ labels
                              /\ UNCHANGED <<fp_address, fp_error_count>>
                ELSE /\ fp_error_count' = fp_error_count + InstrErrors(parts)
                     /\ fp_address' = fp_address + 1
                     /\ UNCHANGED labels
    /\ idx' = idx + 1
    /\ UNCHANGED <<machine, lines, instructions, stage, sp_address, sp_error_count,
                   execLocals, diag, result>>

(* first_pass returns; run() either returns False or enters second_pass *)

FirstPassReturn ==
    /\ stage = "first_pass"
    /\ idx > Len(lines)
    /\ IF PassSucceeded(fp_error_count)
       THEN /\ stage' = "second_pass"
            /\ idx' = 1
            /\ sp_address' = 0
            /\ sp_error_count' = 0
            /\ UNCHANGED result
       ELSE /\ stage' = "done"
            /\ result' = FALSE
            /\ UNCHANGED <<idx, sp_address, sp_error_count>>
    /\ UNCHANGED <<machine, lines, instructions, labels, fp_address, fp_error_count,
                   execLocals, diag>>

\* variant: only a label alone on its line is skipped
SecondPassSkips_LabelOnly(parts) == endswith_colon(parts[1]) /\ Len(parts) = 1

\* second_pass: if parts[0].endswith(':'): continue
SecondPassSkips(parts) == endswith_colon(parts[1])

(* second_pass: one iteration of the for loop *)

SecondPassLine ==
    /\ stage = "second_pass"
    /\ idx <= Len(lines)
    /\ LET line  == remove_comments(lines[idx])
           parts == split(line)
       IN  IF Len(line) = 0
           THEN UNCHANGED <<instructions, sp_address>>
           ELSE IF SecondPassSkips(parts)
                THEN UNCHANGED <<instructions, sp_address>>
                ELSE /\ instructions' = Append(instructions,
                                               InstructionRecord(sp_address, parts))
                     /\ sp_address' = sp_address + 1
    /\ idx' = idx + 1
    /\ UNCHANGED <<machine, lines, labels, stage, fp_address, fp_error_count,
                   sp_error_count, execLocals, diag, result>>

(* second_pass returns; run() either returns False or calls execute *)

SecondPassReturn ==
    /\ stage = "second_pass"
    /\ idx > Len(lines)
    /\ IF PassSucceeded(sp_error_count)
       THEN /\ stage' = "execute"
            /\ UNCHANGED result
       ELSE /\ stage' = "done"
            /\ result' = FALSE
    /\ UNCHANGED <<machine, lines, instructions, labels, idx, passLocals,
                   execLocals, diag>>

-----------------------------------------------------------------------------
(* execute *)

\* raise ValueError(msg) inside the try block
Fault(msg) == [kind |-> "fault", msg |-> msg, target |-> 0, dest |-> 0, value |-> 0]

\* variant: the jump lands one past the label's address
JmpTarget_PlusOne(label) == labels[label] + 1

\* self.pc = self.labels[label]
JmpTarget(label) == labels[label]

\* the JMP branch of the dispatch
JmpOutcome(operands) ==
    IF Len(operands) # 1 THEN Fault("jmp_arity")
    ELSE LET op == parse_operand(operands[1])
         IN  IF op.type = "error" THEN Fault(op.val)
             ELSE IF op.type # "label" THEN Fault("jmp_shape")
             ELSE IF op.val \notin DOMAIN labels THEN Fault("label_not_found")
             ELSE [kind |-> "jmp", msg |-> "", target |-> JmpTarget(op.val),
                   dest |-> 0, value |-> 0]

\* variant: a register source is looked up with the destination's number
MovOutcome_ReadsDest(operands) ==
    IF Len(operands) # 2 THEN Fault("mov_arity")
    ELSE LET dest == parse_operand(operands[1])
             src  == parse_operand(operands[2])
         IN  IF dest.type = "error" THEN Fault(dest.val)
             ELSE IF src.type = "error" THEN Fault(src.val)
             ELSE IF dest.type # "reg" THEN Fault("mov_dest")
             ELSE IF src.type = "reg"
                  THEN [kind |-> "mov", msg |-> "", target |-> 0,
                        dest |-> dest.val, value |-> registers[dest.val]]
             ELSE IF src.type = "imm"
                  THEN [kind |-> "mov", msg |-> "", target |-> 0,
                        dest |-> dest.val, value |-> src.val]
             ELSE Fault("mov_src_label")

\* variant: a label source is stored as the value 0 instead of faulting
MovOutcome_LabelAsZero(operands) ==
    IF Len(operands) # 2 THEN Fault("mov_arity")
    ELSE LET dest == parse_operand(operands[1])
             src  == parse_operand(operands[2])
         IN  IF dest.type = "error" THEN Fault(dest.val)
             ELSE IF src.type = "error" THEN Fault(src.val)
             ELSE IF dest.type # "reg" THEN Fault("mov_dest")
             ELSE IF src.type = "reg"
                  THEN [kind |-> "mov", msg |-> "", target |-> 0,
                        dest |-> dest.val, value |-> registers[src.val]]
             ELSE IF src.type = "imm"
                  THEN [kind |-> "mov", msg |-> "", target |-> 0,
                        dest |-> dest.val, value |-> src.val]
             ELSE [kind |-> "mov", msg |-> "", target |-> 0,
                   dest |-> dest.val, value |-> 0]

\* the MOV branch of the dispatch
MovOutcome(operands) ==
    IF Len(operands) # 2 THEN Fault("mov_arity")
    ELSE LET dest == parse_operand(operands[1])
             src  == parse_operand(operands[2])
         IN  IF dest.type = "error" THEN Fault(dest.val)
             ELSE IF src.type = "error" THEN Fault(src.val)
             ELSE IF dest.type # "reg" THEN Fault("mov_dest")
             ELSE IF src.type = "reg"
                  THEN [kind |-> "mov", msg |-> "", target |-> 0,
                        dest |-> dest.val, value |-> registers[src.val]]
             ELSE IF src.type = "imm"
                  THEN [kind |-> "mov", msg |-> "", target |-> 0,
                        dest |-> dest.val, value |-> src.val]
             ELSE Fault("mov_src_label")

\* the body of the try block: what the instruction at self.pc does
StepOutcome(ins) ==
    IF ins.instr = HLT
    THEN [kind |-> "hlt", msg |-> "", target |-> 0, dest |-> 0, value |-> 0]
    ELSE IF ins.instr = NOP
    THEN [kind |-> "nop", msg |-> "", target |-> 0, dest |-> 0, value |-> 0]
    ELSE IF ins.instr = JMP THEN JmpOutcome(ins.operands)
    ELSE IF ins.instr = MOV THEN MovOutcome(ins.operands)
    ELSE Fault("unknown")

\* variant: MOV stores into the memory cell of the destination's number
MemoryAfter_MovStores(o) ==
    IF o.kind = "mov" THEN [memory EXCEPT ![o.dest] = o.value] ELSE memory

\* self.memory after the instruction: no branch of the dispatch assigns it
MemoryAfter(o) == memory

\* while self.running and executed_count < max_executions
LoopCondition == running /\ executed_count < max_executions

\* if executed_count >= max_executions: return False / return True
ExecuteResult(count) == ~(count >= max_executions)

(* execute is entered: the empty-program check and the initialisation *)

ExecuteStart ==
    /\ stage = "execute"
    /\ IF Len(instructions) = 0
       THEN /\ diag' = Append(diag, "not_loaded")
            /\ result' = FALSE
            /\ stage' = "done"
            /\ UNCHANGED <<pc, running, executed_count>>
       ELSE /\ pc' = 0
            /\ running' = TRUE
            /\ executed_count' = 0
            /\ stage' = "exec_loop"
            /\ UNCHANGED <<diag, result>>
    /\ UNCHANGED <<registers, memory, lines, instructions, labels, idx, passLocals,
                   iterations>>

(* execute: one iteration of the while loop *)

ExecStep ==
    /\ stage = "exec_loop"
    /\ LoopCondition
    /\ IF pc >= Len(instructions)
       THEN /\ diag' = Append(diag, "pc_range")
            /\ stage' = "exec_ret"
            /\ UNCHANGED <<pc, registers, memory, running, executed_count>>
       ELSE LET o == StepOutcome(instructions[pc + 1])
            IN  /\ memory' = MemoryAfter(o)
                /\ CASE o.kind = "fault" ->
                          /\ diag' = Append(diag, o.msg)
                          /\ running' = FALSE
                          /\ stage' = "exec_ret"
                          /\ UNCHANGED <<pc, registers, executed_count>>
                     [] o.kind = "jmp" ->
                          /\ pc' = o.target
                          /\ UNCHANGED <<registers, running, executed_count, diag, stage>>
                     [] o.kind = "hlt" ->
                          /\ diag' = Append(diag, "hlt")
                          /\ running' = FALSE
                          /\ pc' = pc + 1
                          /\ executed_count' = executed_count + 1
                          /\ UNCHANGED <<registers, stage>>
                     [] o.kind = "nop" ->
                          /\ pc' = pc + 1
                          /\ executed_count' = executed_count + 1
                          /\ UNCHANGED <<registers, running, diag, stage>>
                     [] o.kind = "mov" ->
                          /\ registers' = [registers EXCEPT ![o.dest] = o.value]
                          /\ pc' = pc + 1
                          /\ executed_count' = executed_count + 1
                          /\ UNCHANGED <<running, diag, stage>>
    /\ iterations' = (iterations + 1) % 2
    /\ UNCHANGED <<lines, instructions, labels, idx, passLocals, result>>

(* execute: the while condition is false, the loop is left *)

ExecLoopExit ==
    /\ stage = "exec_loop"
    /\ ~LoopCondition
    /\ stage' = "exec_ret"
    /\ UNCHANGED <<machine, lines, instructions, labels, idx, passLocals,
                   execLocals, diag, result>>

(* execute returns, and run() returns its result *)

ExecReturn ==
    /\ stage = "exec_ret"
    /\ diag' = IF executed_count >= max_executions THEN Append(diag, "limit") ELSE diag
    /\ result' = ExecuteResult(executed_count)
    /\ stage' = "done"
    /\ UNCHANGED <<machine, lines, instructions, labels, idx, passLocals,
                   execLocals>>

-----------------------------------------------------------------------------

Next ==
    \/ LoadProgram
    \/ LoadFail
    \/ FirstPassLine
    \/ FirstPassReturn
    \/ SecondPassLine
    \/ SecondPassReturn
    \/ ExecuteStart
    \/ ExecStep
    \/ ExecLoopExit
    \/ ExecReturn

Spec == Init /\ [][Next]_vars

\* execute is one synchronous control flow: an iteration of its loop that is
\* possible is taken, and so is its return.
Fairness ==
    /\ WF_vars(ExecuteStart)
    /\ WF_vars(ExecStep)
    /\ WF_vars(ExecLoopExit)
    /\ WF_vars(ExecReturn)

FairSpec == Init /\ [][Next]_vars /\ Fairness

-----------------------------------------------------------------------------
(* Vocabulary of the properties *)

\* the while loop is about to dispatch the instruction at pc
AtInstr == stage = "exec_loop" /\ LoopCondition /\ pc < Len(instructions)

CurInstr == instructions[pc + 1]

Printed(msg) == \E k \in 1..Len(diag) : diag[k] = msg

\* the for loop of first_pass has gone through every line
FirstPassOver == stage = "first_pass" /\ idx > Len(lines)

\* a memory of 256 cells that all hold 0
ZeroMemory == [a \in 0..255 |-> 0]

\* second_pass has returned and execute has not started yet
SecondPassOver == stage = "execute"

\* the tokens of every physical line, as both passes derive them
AllParts == [k \in 1..Len(lines) |-> split(remove_comments(lines[k]))]

IsLabelParts(parts) == Len(parts) > 0 /\ endswith_colon(parts[1])

IsInstrParts(parts) == Len(parts) > 0 /\ ~endswith_colon(parts[1])

\* the number of instruction lines among the first n lines
InstrLinesIn(allParts, n) == Cardinality({j \in 1..n : IsInstrParts(allParts[j])})

ArityOf(mnemonic) == IF mnemonic = JMP THEN 1 ELSE IF mnemonic = MOV THEN 2 ELSE 0

-----------------------------------------------------------------------------
(* C1: every program whose execution enters a cycle of jumps without HLT   *)
(* (a cycle made only of JMP included) eventually ends in Halted-StepLimit: *)
(* run returns False with the step counter at exactly 1000.                 *)

\* a JMP whose target is not after it: the control flow does not depend on
\* data, so the instructions from the target to this JMP repeat for ever
InJumpCycle ==
    /\ AtInstr
    /\ CurInstr.instr = JMP
    /\ StepOutcome(CurInstr).kind = "jmp"
    /\ StepOutcome(CurInstr).target <= pc

C1_CycleEndsAtStepLimit ==
    InJumpCycle ~> (stage = "done" /\ result = FALSE /\ executed_count = max_executions)

(* C2: when execute stops on a runtime fault (jump label not found, label   *)
(* as MOV source, program counter out of range) run returns False.          *)

RuntimeFaults == {"label_not_found", "mov_src_label", "pc_range"}

C2_FaultReturnsFalse ==
    (stage = "done" /\ \E m \in RuntimeFaults : Printed(m)) => result = FALSE

(* C3: whenever HLT has been executed the run ends in Halted-Success: run   *)
(* returns True, whatever the number of steps executed before the HLT.      *)

C3_HltReturnsTrue ==
    (stage = "done" /\ Printed("hlt")) => result = TRUE

(* C4: the step that executes HLT leaves the program counter, the registers *)
(* and the memory unchanged.                                                 *)

C4_HltKeepsPc ==
    [][(AtInstr /\ CurInstr.instr = HLT)
         => (pc' = pc /\ registers' = registers /\ memory' = memory)]_vars

(* C5: every executed instruction, JMP included, counts towards the step    *)
(* ceiling: each step that executes an instruction without fault adds one   *)
(* to the step counter, so no run executes more than 1000 instructions.     *)

C5_EveryInstructionCounts ==
    [][(AtInstr /\ StepOutcome(CurInstr).kind # "fault")
         => executed_count' = executed_count + 1]_vars

-----------------------------------------------------------------------------
(* C6: when JMP L executes and L is bound to address K in the label table,  *)
(* the program counter at the start of the next iteration is exactly K, and *)
(* no register changes.                                                      *)

\* the instruction at pc is a JMP whose single operand is a label of the table
JmpResolves ==
    /\ AtInstr
    /\ CurInstr.instr = JMP
    /\ Len(CurInstr.operands) = 1
    /\ parse_operand(CurInstr.operands[1]).type = "label"
    /\ upper(CurInstr.operands[1]) \in DOMAIN labels

C6_JmpSetsPcToLabel ==
    [][JmpResolves
         => /\ pc' = labels[upper(CurInstr.operands[1])]
            /\ stage' = "exec_loop"
            /\ registers' = registers]_vars

\* a jump has been taken (pc and the step counter only part on a jump) and
\* the loop is about to go on from the address of a label
C6_Witness ==
    /\ stage = "exec_loop"
    /\ running
    /\ pc # executed_count
    /\ \E l \in DOMAIN labels : pc = labels[l]

(* C7: both passes derive the same addresses: the k-th record of            *)
(* second_pass carries address k and sits at index k (0-based), it is the   *)
(* k-th instruction line, the number of records is first_pass's final       *)
(* address counter, and each label is bound to the number of instruction    *)
(* lines that precede its (first) definition.                               *)

C7_PassesAgree ==
    SecondPassOver =>
        LET allParts == AllParts
        IN  /\ Len(instructions) = fp_address
            /\ \A k \in 1..Len(instructions) : instructions[k].addr = k - 1
            /\ \A k \in 1..Len(lines) :
                 IsInstrParts(allParts[k]) =>
                     LET a == InstrLinesIn(allParts, k - 1)
                     IN  /\ a < Len(instructions)
                         /\ instructions[a + 1].addr = a
                         /\ instructions[a + 1].instr = allParts[k][1]
                         /\ instructions[a + 1].operands = Tail(allParts[k])
            /\ \A l \in DOMAIN labels :
                 \E k \in 1..Len(lines) :
                     /\ IsLabelParts(allParts[k])
                     /\ drop_last(allParts[k][1]) = l
                     /\ \A j \in 1..(k - 1) :
                          ~(IsLabelParts(allParts[j]) /\ drop_last(allParts[j][1]) = l)
                     /\ labels[l] = InstrLinesIn(allParts, k - 1)

\* second_pass has returned several records, and a label is bound to an
\* address other than 0
C7_Witness ==
    /\ SecondPassOver
    /\ Len(instructions) >= 2
    /\ \E l \in DOMAIN labels : labels[l] >= 1

(* C8: when a label name is defined on two label lines, however far apart,  *)
(* first_pass records an error, the table keeps the address of the first    *)
(* definition, and first_pass returns False: the run ends failed before     *)
(* second_pass.                                                              *)

\* lines j < k define the same label name
Redefined(allParts, j, k) ==
    /\ j < k
    /\ IsLabelParts(allParts[j])
    /\ IsLabelParts(allParts[k])
    /\ allParts[j][1] = allParts[k][1]

LabelLines(allParts) == {k \in 1..Len(lines) : IsLabelParts(allParts[k])}

HasRedefinition(allParts) ==
    \E j, k \in LabelLines(allParts) : Redefined(allParts, j, k)

\* second_pass is entered and has not looked at a line yet
SecondPassEntered == stage = "second_pass" /\ idx = 1

C8_DuplicateLabelRejected ==
    /\ FirstPassOver =>
         LET allParts == AllParts
         IN  \A j, k \in LabelLines(allParts) :
                Redefined(allParts, j, k) =>
                    /\ fp_error_count >= 1
                    /\ ~PassSucceeded(fp_error_count)
                    /\ drop_last(allParts[j][1]) \in DOMAIN labels
                    /\ (\A h \in 1..(j - 1) : ~Redefined(allParts, h, j))
                         => labels[drop_last(allParts[j][1])] = InstrLinesIn(allParts, j - 1)
    /\ (SecondPassEntered \/ SecondPassOver \/ (stage = "done" /\ result = TRUE))
         => ~HasRedefinition(AllParts)

\* the run has ended failed, with the redefinition as its only error, on a
\* program that defines a label twice with an instruction line in between
C8_Witness ==
    /\ stage = "done"
    /\ result = FALSE
    /\ fp_error_count = 1
    /\ LET allParts == AllParts
       IN  \E j, k \in 1..Len(lines) :
              /\ Redefined(allParts, j, k)
              /\ \E h \in (j + 1)..(k - 1) : IsInstrParts(allParts[h])

(* C9: if first_pass has recorded an error, run returns False without       *)
(* running second_pass or execute: no instruction record exists and the     *)
(* program counter, the registers and the memory keep their initial values. *)

C9_ErrorsAbortRun ==
    fp_error_count > 0 =>
        /\ stage \in {"first_pass", "done"}
        /\ stage = "done" => result = FALSE
        /\ instructions = <<>>
        /\ pc = 0
        /\ running = FALSE
        /\ \A r \in DOMAIN registers : registers[r] = 0
        /\ memory = ZeroMemory
        /\ diag = <<>>

C9_Witness == stage = "done" /\ fp_error_count > 0 /\ result = FALSE

(* C10: first_pass enforces the arity of every mnemonic: an HLT or NOP line *)
(* with operands, a JMP line without exactly one operand and a MOV line     *)
(* without exactly two operands are each recorded as an error.              *)

WrongArity(parts) ==
    /\ IsInstrParts(parts)
    /\ parts[1] \in valid_instructions
    /\ Len(parts) - 1 # ArityOf(parts[1])

C10_ArityEnforced ==
    FirstPassOver =>
        LET allParts == AllParts
        IN  (\E k \in 1..Len(lines) : WrongArity(allParts[k]))
                => (fp_error_count > 0 /\ ~PassSucceeded(fp_error_count))

-----------------------------------------------------------------------------
(* C11 as stated: a line `LABEL: INSTR ...` is treated like the label on   *)
(* its own line followed by the instruction on the next line: the trailing *)
(* instruction takes the next address and second_pass materializes it.     *)

\* a label followed by further tokens on the same line
CombinedParts(parts) == IsLabelParts(parts) /\ Len(parts) > 1

CombinedLinesIn(allParts, n) == Cardinality({j \in 1..n : CombinedParts(allParts[j])})

C11_CombinedLineMaterialized ==
    SecondPassOver =>
        LET allParts == AllParts
        IN  \A k \in 1..Len(lines) :
               CombinedParts(allParts[k]) =>
                   LET a == InstrLinesIn(allParts, k - 1) + CombinedLinesIn(allParts, k - 1)
                   IN  /\ a < Len(instructions)
                       /\ instructions[a + 1].addr = a
                       /\ instructions[a + 1].instr = allParts[k][2]

(* C11 as amended: on a line `LABEL: INSTR ...` the label is bound to the  *)
(* current address and everything after the label is ignored: first_pass   *)
(* does not validate the trailing tokens and does not advance the address  *)
(* counter, and second_pass materializes no instruction for the line.      *)

C11_TrailingTokensIgnored ==
    /\ FirstPassOver =>
         LET allParts == AllParts
         IN  /\ fp_address = InstrLinesIn(allParts, Len(lines))
             /\ \A k \in 1..Len(lines) :
                  CombinedParts(allParts[k]) => drop_last(allParts[k][1]) \in DOMAIN labels
             /\ ((\A k \in 1..Len(lines) : ~IsInstrParts(allParts[k]))
                    /\ ~HasRedefinition(allParts))
                  => (fp_error_count = 0 /\ fp_address = 0)
    /\ SecondPassOver =>
         LET allParts == AllParts
         IN  /\ Len(instructions) = InstrLinesIn(allParts, Len(lines))
             /\ \A k \in 1..Len(lines) :
                  (CombinedParts(allParts[k])
                     /\ \A j \in 1..(k - 1) : ~Redefined(allParts, j, k))
                    => labels[drop_last(allParts[k][1])] = InstrLinesIn(allParts, k - 1)

\* second_pass has returned on a program with a line `L: FOO`, whose trailing
\* token is no mnemonic, after an instruction line: L is bound, nothing more
C11_Witness ==
    /\ SecondPassOver
    /\ LET allParts == AllParts
       IN  \E k \in 1..Len(lines) :
              /\ CombinedParts(allParts[k])
              /\ allParts[k][2] \notin valid_instructions
              /\ labels[drop_last(allParts[k][1])] >= 1
              /\ Len(instructions) = labels[drop_last(allParts[k][1])]

-----------------------------------------------------------------------------
(* C12: a JMP whose operand classifies as a register or as an immediate    *)
(* makes first_pass record an error and return False; such an instruction  *)
(* is never materialized and never reaches execution.                      *)

JmpRegOrImm(parts) ==
    /\ IsInstrParts(parts)
    /\ parts[1] = JMP
    /\ Len(parts) = 2
    /\ parse_operand(parts[2]).type \in {"reg", "imm"}

C12_JmpNeedsLabel ==
    /\ FirstPassOver =>
         LET allParts == AllParts
         IN  (\E k \in 1..Len(lines) : JmpRegOrImm(allParts[k]))
                => (fp_error_count > 0 /\ ~PassSucceeded(fp_error_count))
    /\ (SecondPassEntered \/ SecondPassOver) =>
         LET allParts == AllParts
         IN  \A k \in 1..Len(lines) : ~JmpRegOrImm(allParts[k])
    /\ SecondPassOver =>
         \A k \in 1..Len(instructions) :
            ~JmpRegOrImm(<<instructions[k].instr>> \o instructions[k].operands)
    /\ AtInstr => ~JmpRegOrImm(<<CurInstr.instr>> \o CurInstr.operands)

\* the run has ended failed, without any instruction record, on a program
\* whose only errors are a JMP to a register and a JMP to an immediate
C12_Witness ==
    /\ stage = "done"
    /\ result = FALSE
    /\ fp_error_count = 2
    /\ instructions = <<>>
    /\ LET allParts == AllParts
       IN  /\ Len(lines) = 2
           /\ \E k \in 1..Len(lines) :
                JmpRegOrImm(allParts[k]) /\ parse_operand(allParts[k][2]).type = "reg"
           /\ \E k \in 1..Len(lines) :
                JmpRegOrImm(allParts[k]) /\ parse_operand(allParts[k][2]).type = "imm"

-----------------------------------------------------------------------------
(* C13: executing `MOV Rd S`, S a register Rs or an immediate v, stores    *)
(* into Rd the value Rs held before the step (or v), leaves every other    *)
(* register unchanged and advances the program counter by one.             *)

\* the instruction at pc is a MOV with a register destination and a register
\* or immediate source
MovApplies ==
    /\ AtInstr
    /\ CurInstr.instr = MOV
    /\ Len(CurInstr.operands) = 2
    /\ parse_operand(CurInstr.operands[1]).type = "reg"
    /\ parse_operand(CurInstr.operands[2]).type \in {"reg", "imm"}

C13_MovStoresSource ==
    [][MovApplies =>
         LET d == parse_operand(CurInstr.operands[1]).val
             s == parse_operand(CurInstr.operands[2])
         IN  /\ registers'[d] = IF s.type = "reg" THEN registers[s.val] ELSE s.val
             /\ \A r \in DOMAIN registers : r # d => registers'[r] = registers[r]
             /\ DOMAIN registers' = DOMAIN registers
             /\ pc' = pc + 1]_vars

\* `MOV R0 5` and then `MOV R1 R0` have been executed: R1 holds the 5
C13_Witness ==
    /\ stage = "exec_loop"
    /\ pc = 2
    /\ executed_count = 2
    /\ instructions[1].instr = MOV
    /\ instructions[2].instr = MOV
    /\ parse_operand(instructions[2].operands[2]).type = "reg"
    /\ registers[0] = 5
    /\ registers[1] = 5

-----------------------------------------------------------------------------
(* C14: first_pass never stops at the first error: it examines every line, *)
(* its error count is the sum of the errors of all lines, it fails iff     *)
(* some line has an error, and a label defined after an erroneous line is  *)
(* still bound to its address.                                             *)

UnknownMnemonic(parts) == IsInstrParts(parts) /\ parts[1] \notin valid_instructions

BadJmp(parts) ==
    /\ IsInstrParts(parts)
    /\ parts[1] = JMP
    /\ (Len(parts) # 2 \/ parse_operand(parts[2]).type # "label")

BadMov(parts) ==
    /\ IsInstrParts(parts)
    /\ parts[1] = MOV
    /\ \/ Len(parts) # 3
       \/ parse_operand(parts[2]).type # "reg"
       \/ parse_operand(parts[3]).type = "error"

\* a MOV line on which both the destination and the source are reported
BadMovTwice(parts) ==
    /\ IsInstrParts(parts)
    /\ parts[1] = MOV
    /\ Len(parts) = 3
    /\ parse_operand(parts[2]).type \notin {"reg", "error"}
    /\ parse_operand(parts[3]).type = "error"

\* the label lines that define a name an earlier line has defined
RedefiningLines(allParts) ==
    {k \in LabelLines(allParts) : \E j \in LabelLines(allParts) : Redefined(allParts, j, k)}

ErrorsOfAllLines(allParts) ==
    LET n == Len(lines)
    IN  Cardinality({k \in 1..n : UnknownMnemonic(allParts[k])})
        + Cardinality({k \in 1..n : BadJmp(allParts[k])})
        + Cardinality({k \in 1..n : BadMov(allParts[k])})
        + Cardinality({k \in 1..n : BadMovTwice(allParts[k])})
        + Cardinality(RedefiningLines(allParts))

C14_ErrorsAccumulate ==
    /\ stage = "first_pass" => idx <= Len(lines) + 1
    /\ FirstPassOver =>
         LET allParts == AllParts
             errors == ErrorsOfAllLines(allParts)
         IN  /\ idx = Len(lines) + 1
             /\ fp_error_count = errors
             /\ PassSucceeded(fp_error_count) <=> errors = 0
             /\ \A k \in LabelLines(allParts) :
                  /\ drop_last(allParts[k][1]) \in DOMAIN labels
                  /\ k \notin RedefiningLines(allParts)
                       => labels[drop_last(allParts[k][1])] = InstrLinesIn(allParts, k - 1)

\* first_pass has gone through a program whose first line and last line are
\* both in error, with a label defined in between bound to address 1
C14_Witness ==
    /\ FirstPassOver
    /\ Len(lines) = 3
    /\ fp_error_count = 2
    /\ LET allParts == AllParts
       IN  /\ UnknownMnemonic(allParts[1])
           /\ IsLabelParts(allParts[2])
           /\ labels[drop_last(allParts[2][1])] = 1
           /\ BadJmp(allParts[3])

-----------------------------------------------------------------------------
(* C15: parse_operand classifies an all-digit token of value v as the      *)
(* immediate v exactly when 0 <= v <= 65535; for v >= 65536 it fails with  *)
(* the out-of-range error and never wraps; so at pass 1 `MOV Rd 65536` is  *)
(* rejected and `MOV Rd 65535` is accepted.                                *)

\* a MOV line with a register destination and an all-digit source
MovImmediate(parts) ==
    /\ IsInstrParts(parts)
    /\ parts[1] = MOV
    /\ Len(parts) = 3
    /\ parse_operand(parts[2]).type = "reg"
    /\ isdigit(parts[3])

\* the two tokens at the edge of the range
EdgeTokensClassified ==
    /\ parse_operand(<<"6", "5", "5", "3", "5">>) = [type |-> "imm", val |-> 65535]
    /\ parse_operand(<<"6", "5", "5", "3", "6">>) = [type |-> "error", val |-> "range"]

C15_ImmediateRange ==
    /\ EdgeTokensClassified
    /\ FirstPassOver =>
         LET allParts == AllParts
         IN  /\ \A k \in 1..Len(lines) : \A i \in 2..Len(allParts[k]) :
                  isdigit(allParts[k][i]) =>
                      parse_operand(allParts[k][i]) =
                          IF int(allParts[k][i]) <= 65535
                          THEN [type |-> "imm", val |-> int(allParts[k][i])]
                          ELSE [type |-> "error", val |-> "range"]
             /\ (\E k \in 1..Len(lines) :
                    MovImmediate(allParts[k]) /\ int(allParts[k][3]) >= 65536)
                  => (fp_error_count > 0 /\ ~PassSucceeded(fp_error_count))
             /\ (\A k \in 1..Len(lines) :
                    MovImmediate(allParts[k]) /\ int(allParts[k][3]) <= 65535)
                  => (fp_error_count = 0 /\ PassSucceeded(fp_error_count))

\* first_pass has gone through `MOV R7 65535` and `MOV R7 65536`, in either
\* order, and has recorded exactly one error
C15_Witness ==
    /\ FirstPassOver
    /\ Len(lines) = 2
    /\ fp_error_count = 1
    /\ LET allParts == AllParts
       IN  /\ \A k \in 1..2 : MovImmediate(allParts[k])
           /\ \E k \in 1..2 : int(allParts[k][3]) = 65535
           /\ \E k \in 1..2 : int(allParts[k][3]) = 65536

-----------------------------------------------------------------------------
(* C16: memory is never mutated: all 256 cells are 0 in every reachable    *)
(* state, whatever the program does.                                       *)

C16_MemoryStaysZero == memory = ZeroMemory

\* a MOV has stored a non-zero value in R7 and the run is over
C16_Witness ==
    /\ stage = "done"
    /\ registers[7] # 0
    /\ memory = ZeroMemory

-----------------------------------------------------------------------------
(* C17: an instruction at address A that faults at run time (a JMP to a    *)
(* label that is not defined, a MOV whose source is a label) stops the     *)
(* execution at once: pc is still A, the registers are those before the    *)
(* faulting step (the effects of the earlier steps are kept), and nothing  *)
(* after it changes them.                                                  *)

JmpUndefined ==
    /\ AtInstr
    /\ CurInstr.instr = JMP
    /\ Len(CurInstr.operands) = 1
    /\ parse_operand(CurInstr.operands[1]).type = "label"
    /\ parse_operand(CurInstr.operands[1]).val \notin DOMAIN labels

MovFromLabel ==
    /\ AtInstr
    /\ CurInstr.instr = MOV
    /\ Len(CurInstr.operands) = 2
    /\ parse_operand(CurInstr.operands[1]).type = "reg"
    /\ parse_operand(CurInstr.operands[2]).type = "label"

C17_FaultStopsInPlace ==
    [][/\ (JmpUndefined \/ MovFromLabel) =>
            /\ pc' = pc
            /\ pc' = CurInstr.addr
            /\ registers' = registers
            /\ running' = FALSE
            /\ executed_count' = executed_count
            /\ stage' = "exec_ret"
       /\ stage = "exec_ret" => (pc' = pc /\ registers' = registers)]_vars

\* `MOV R0 5` was executed, then `MOV R0 L` faulted at address 1: the run is
\* over with pc = 1 and the 5 still in R0
C17_Witness ==
    /\ stage = "done"
    /\ Printed("mov_src_label")
    /\ pc = 1
    /\ executed_count = 1
    /\ registers[0] = 5

-----------------------------------------------------------------------------
(* C18: when first_pass has accepted the program, execute never reaches    *)
(* the unknown-mnemonic branch, the JMP arity or operand-shape faults, the *)
(* MOV arity or non-register-destination faults, nor an operand that does  *)
(* not parse; the only faults it can report are a jump to an undefined     *)
(* label, a label as the source of a MOV, and pc out of range.             *)

\* what execute can print for a program that passed first_pass
ExpectedDiagnostics ==
    {"hlt", "not_loaded", "limit", "label_not_found", "mov_src_label", "pc_range"}

\* the instruction about to be dispatched is well formed
WellFormed(ins) ==
    /\ ins.instr \in valid_instructions
    /\ ins.instr = JMP =>
          /\ Len(ins.operands) = 1
          /\ parse_operand(ins.operands[1]).type = "label"
    /\ ins.instr = MOV =>
          /\ Len(ins.operands) = 2
          /\ parse_operand(ins.operands[1]).type = "reg"
          /\ parse_operand(ins.operands[2]).type # "error"

C18_OnlyRuntimeFaults ==
    /\ \A k \in 1..Len(diag) : diag[k] \in ExpectedDiagnostics
    /\ AtInstr => WellFormed(CurInstr)
    /\ (AtInstr /\ StepOutcome(CurInstr).kind = "fault") =>
          StepOutcome(CurInstr).msg \in {"label_not_found", "mov_src_label"}

\* the program passed first_pass, one instruction was executed and the JMP that
\* followed faulted on its undefined label
C18_Witness ==
    /\ stage = "exec_ret"
    /\ fp_error_count = 0
    /\ executed_count = 1
    /\ Printed("label_not_found")

-----------------------------------------------------------------------------
(* C19: while execute runs, 0 <= pc <= len(instructions) and every label   *)
(* address is in 0..len(instructions); a JMP to a label defined after the  *)
(* last instruction sets pc to len(instructions), and the very next        *)
(* iteration stops with the pc-out-of-range diagnostic, before the         *)
(* instruction sequence is indexed.                                        *)

InExecute == stage \in {"exec_loop", "exec_ret"}

\* the loop is about to run an iteration with pc one past the last instruction
PcPastEnd ==
    /\ stage = "exec_loop"
    /\ LoopCondition
    /\ pc = Len(instructions)

C19_PcWithinProgram ==
    /\ [](InExecute =>
            /\ pc \in 0..Len(instructions)
            /\ \A l \in DOMAIN labels : labels[l] \in 0..Len(instructions))
    /\ [][/\ (JmpResolves /\ labels[upper(CurInstr.operands[1])] = Len(instructions))
               => (pc' = Len(instructions) /\ stage' = "exec_loop" /\ running')
          /\ PcPastEnd =>
               /\ stage' = "exec_ret"
               /\ diag' = Append(diag, "pc_range")
               /\ pc' = pc
               /\ registers' = registers
               /\ executed_count' = executed_count]_vars

\* a JMP went to a label bound to len(instructions) and the next iteration
\* stopped on the range test: no instruction was counted
C19_Witness ==
    /\ stage = "exec_ret"
    /\ Printed("pc_range")
    /\ pc = Len(instructions)
    /\ executed_count < pc
    /\ \E l \in DOMAIN labels : labels[l] = Len(instructions)

-----------------------------------------------------------------------------
(* C20: while execute runs, each of the 8 registers holds a value in       *)
(* 0..65535: a register is only written with an immediate that             *)
(* parse_operand accepted or with the value of a register.                 *)

C20_RegistersIn16Bits ==
    /\ DOMAIN registers = 0..(NumRegisters - 1)
    /\ \A r \in 0..(NumRegisters - 1) : registers[r] \in 0..65535

\* the largest immediate has been stored in R7
C20_Witness ==
    /\ stage = "exec_loop"
    /\ registers[7] = 65535

====
